---- MODULE Spec2Model ----
(***************************************************************************)
(* The edit-action engine of react-app-ai-builder: handleEdit, the         *)
(* completion-provider call, the decode of the model's answer, and         *)
(* applyEdits over a file tree, in the three backend variants kept in the  *)
(* repository:                                                             *)
(*   "v1"  src/backend/main.go lines 1-399   (provider switch, SidePanel   *)
(*         guard, no escape guard)                                         *)
(*   "v2"  src/backend/main.go lines 401-729 (callOllama decodes and caps  *)
(*         the batch, applyEdits has no guard)                             *)
(*   "v3"  src/unnamed/part_001              (cleanAIResponse,             *)
(*         normalizePath, SidePanel guard and escape guard)                *)
(*                                                                         *)
(* A path string is the sequence strings.Split(path, "/") of its segments: *)
(* "src/App.tsx" is <<"src","App.tsx">>, "/etc/passwd" is                  *)
(* <<"","etc","passwd">>.  A cleaned path (the result of filepath.Join) is *)
(* a sequence with no "" and no "." segment, relative to the backend's     *)
(* working directory; <<>> is ".".                                         *)
(***************************************************************************)
EXTENDS Integers, Sequences, FiniteSets, TLC

VARIABLES
    variant,   \* which backend variant is running
    files,     \* the file tree: cleaned path -> content, for regular files
    dirs,      \* the file tree: cleaned paths of directories
    tree0,     \* the file tree when the server started
    pc,        \* per request: position in handleEdit
    provider,  \* per request: EditRequest.Provider
    batch,     \* per request: edits.Actions as decoded
    idx,       \* per request: index of the next action of the applyEdits loop
    resp,      \* per request: the HTTP response written
    errAt,     \* per request: the stage whose error ended the request
    seen,      \* per request: what its collaborators gave it (gather, provider)
    called,    \* per request: a completion provider was called
    invoked,   \* per request: applyEdits was called
    touched,   \* per request: paths it created, overwrote or removed
    last,      \* the latest iteration of an applyEdits loop
    decoded,   \* callOllama (v2): the action list json.Unmarshal produced
    capped,    \* callOllama (v2): what it returned for decoded
    response,  \* cleanAIResponse: the raw text it is given, character by character
    cleaned,   \* cleanAIResponse: the text it returned for response, and the
               \* text the second pass in handleEdit made of that
    context    \* per request: the files gatherContextJSON reported

vars == <<variant, files, dirs, tree0, pc, provider, batch, idx, resp, errAt, seen,
          called, invoked, touched, last, decoded, capped, response, cleaned, context>>

----------------------------------------------------------------------------
(* Bounds of the model *)

MaxBatch == 2

MaxDecoded == 102

MaxPieces == 4

(* Program constants *)

projectRoot == <<"..", "frontend", "src">>

HardCap == 100

SoftCap == 50

Reqs == {"r1", "r2"}

Variants == {"v1", "v2", "v3"}

----------------------------------------------------------------------------
(* Strings *)

\* The segments of the inputs that contain a given substring.
SubstrTable ==
    { <<"SidePanel.tsx", "SidePanel">>,
      <<"..", "..">>,
      <<"a..b.tsx", "..">> }

\* strings.Contains(path, sub) for a sub without "/"
Contains(path, sub) ==
    \E i \in 1..Len(path) : <<path[i], sub>> \in SubstrTable

\* strings.HasPrefix(path, "/")
HasPrefixSlash(path) == Len(path) >= 2 /\ path[1] = ""

\* strings.TrimPrefix(path, "src/")
TrimPrefixSrc(path) ==
    IF Len(path) >= 2 /\ path[1] = "src" THEN Tail(path) ELSE path

\* filepath.Clean of a relative path, segment by segment
RECURSIVE CleanSegs(_, _)
CleanSegs(rest, acc) ==
    IF rest = <<>> THEN acc
    ELSE LET s == Head(rest) IN
         IF s = "" \/ s = "." THEN CleanSegs(Tail(rest), acc)
         ELSE IF s = ".."
              THEN IF acc # <<>> /\ acc[Len(acc)] # ".."
                   THEN CleanSegs(Tail(rest), SubSeq(acc, 1, Len(acc) - 1))
                   ELSE CleanSegs(Tail(rest), Append(acc, ".."))
              ELSE CleanSegs(Tail(rest), Append(acc, s))

\* filepath.Join(a, b) with a relative
Join(a, b) == CleanSegs(a \o b, <<>>)

\* filepath.Dir of a cleaned path
Dir(p) == IF p = <<>> THEN <<>> ELSE SubSeq(p, 1, Len(p) - 1)

\* p lies inside the directory root (a proper descendant of it)
Inside(root, p) ==
    /\ Len(p) > Len(root)
    /\ SubSeq(p, 1, Len(root)) = root

----------------------------------------------------------------------------
(* The file tree *)

\* "." and "..", "../.." ... always exist and are directories
IsDir(d, p) == p \in d \/ \A i \in 1..Len(p) : p[i] = ".."

IsFile(f, p) == p \in DOMAIN f

Prefixes(p) == { SubSeq(p, 1, k) : k \in 1..Len(p) }

\* a proper ancestor of p is a regular file (the walk to p stops there: ENOTDIR)
UnderFile(f, p) == \E k \in 1..(Len(p) - 1) : SubSeq(p, 1, k) \in DOMAIN f

HasChildren(f, d, p) ==
    \E q \in (DOMAIN f) \cup d : Len(q) = Len(p) + 1 /\ SubSeq(q, 1, Len(p)) = p

\* os.MkdirAll(p): err is "" on success
MkdirAll(f, d, p, fault) ==
    IF fault THEN [dirs |-> d, err |-> "EIO"]
    ELSE IF \E q \in Prefixes(p) : q \in DOMAIN f
         THEN [dirs |-> d, err |-> "ENOTDIR"]
         ELSE [dirs |-> d \cup { q \in Prefixes(p) : ~IsDir(d, q) }, err |-> ""]

\* variant of WriteFile that opens an existing file for append
WriteFile_appends(f, d, p, c, fault, trunc) ==
    IF IsDir(d, p) THEN [files |-> f, err |-> "EISDIR", wrote |-> FALSE]
    ELSE IF UnderFile(f, p) THEN [files |-> f, err |-> "ENOTDIR", wrote |-> FALSE]
    ELSE IF ~IsDir(d, Dir(p)) THEN [files |-> f, err |-> "ENOENT", wrote |-> FALSE]
    ELSE IF fault /\ ~trunc THEN [files |-> f, err |-> "EIO", wrote |-> FALSE]
    ELSE LET data == IF fault THEN ""
                     ELSE IF p \in DOMAIN f THEN f[p] \o c ELSE c
         IN  [files |-> [q \in (DOMAIN f) \cup {p} |-> IF q = p THEN data ELSE f[q]],
              err   |-> IF fault THEN "EIO" ELSE "",
              wrote |-> TRUE]

\* ioutil.WriteFile(p, c): open with O_CREATE|O_TRUNC, write, close.
\* A fault strikes before the open (trunc = FALSE) or after it (trunc = TRUE).
WriteFile(f, d, p, c, fault, trunc) ==
    IF IsDir(d, p) THEN [files |-> f, err |-> "EISDIR", wrote |-> FALSE]
    ELSE IF UnderFile(f, p) THEN [files |-> f, err |-> "ENOTDIR", wrote |-> FALSE]
    ELSE IF ~IsDir(d, Dir(p)) THEN [files |-> f, err |-> "ENOENT", wrote |-> FALSE]
    ELSE IF fault /\ ~trunc THEN [files |-> f, err |-> "EIO", wrote |-> FALSE]
    ELSE LET data == IF fault THEN "" ELSE c
         IN  [files |-> [q \in (DOMAIN f) \cup {p} |-> IF q = p THEN data ELSE f[q]],
              err   |-> IF fault THEN "EIO" ELSE "",
              wrote |-> TRUE]

\* os.Remove(p): unlinks a file, removes an empty directory
Remove(f, d, p, fault) ==
    IF fault THEN [files |-> f, dirs |-> d, err |-> "EIO"]
    ELSE IF IsFile(f, p)
         THEN [files |-> [q \in (DOMAIN f) \ {p} |-> f[q]], dirs |-> d, err |-> ""]
    ELSE IF IsDir(d, p)
         THEN IF p \in d /\ ~HasChildren(f, d, p)
              THEN [files |-> f, dirs |-> d \ {p}, err |-> ""]
              ELSE [files |-> f, dirs |-> d, err |-> "ENOTEMPTY"]
    ELSE IF UnderFile(f, p)
         THEN [files |-> f, dirs |-> d, err |-> "ENOTDIR"]
         ELSE [files |-> f, dirs |-> d, err |-> "ENOENT"]

\* variant of IsNotExist that recognises no error
IsNotExist_never(err) == FALSE

\* os.IsNotExist(err)
IsNotExist(err) == err = "ENOENT"

----------------------------------------------------------------------------
(* applyEdits *)

Types == {"create", "update", "delete", "rename"}

Contents == {"", "X"}

Paths ==
    { <<"src", "App.tsx">>,
      <<"src", "components", "SidePanel.tsx">>,
      <<"..", "..", "etc", "passwd">>,
      <<"", "etc", "passwd">>,
      <<"src", "App.tsx", "x">>,
      <<"src", "new", "N.tsx">>,
      <<"components">> }

\* the paths tried with a type applyEdits does not know
RenamePaths ==
    { <<"src", "App.tsx">>,
      <<"src", "components", "SidePanel.tsx">>,
      <<"..", "..", "etc", "passwd">> }

\* AIEditActions.Actions[i]: a create with content, an update with none
\* (omitempty), a delete, and an action of a type that is none of the three;
\* the directory of the side panel is only tried with a delete
Actions ==
    { a \in [type : Types, path : Paths, content : Contents] :
        /\ a.type = "create" => a.content = "X"
        /\ a.type = "update" => a.content = ""
        /\ a.type \in {"delete", "rename"} => a.content = ""
        /\ a.type = "rename" => a.path \in RenamePaths
        /\ a.path = <<"components">> => a.type = "delete" }

NoAction == [type |-> "", path |-> <<>>, content |-> ""]

\* normalizePath: drops the leading segments that repeat the root folder name
RECURSIVE normalizePath(_)
normalizePath(path) ==
    IF Len(path) >= 3 /\ path[1] = "src" /\ path[2] = "src"
    THEN normalizePath(Tail(path))
    ELSE path

\* the path the guards of the loop look at
GuardedPath(v, path) == IF v = "v3" THEN normalizePath(path) ELSE path

\* variant of SkipsProtected with the guard left out
SkipsProtected_off(v, path) == FALSE

\* "Prevent editing the SidePanel"
SkipsProtected(v, path) ==
    v \in {"v1", "v3"} /\ Contains(GuardedPath(v, path), "SidePanel")

\* variant of SkipsEscape without the absolute-path test
SkipsEscape_noAbs(v, path) ==
    v = "v3" /\ Contains(GuardedPath(v, path), "..")

\* "Validate that we're not creating files outside the project"
SkipsEscape(v, path) ==
    /\ v = "v3"
    /\ \/ Contains(GuardedPath(v, path), "..")
       \/ HasPrefixSlash(GuardedPath(v, path))

\* variant of FullPath whose third program joins the path with its "src/" on
FullPath_noTrim(v, path) ==
    CASE v = "v1" -> Join(projectRoot, path)
      [] v = "v2" -> Join(projectRoot, <<"..">> \o path)
      [] v = "v3" -> Join(projectRoot, normalizePath(path))

\* fullPath
FullPath(v, path) ==
    CASE v = "v1" -> Join(projectRoot, path)
      [] v = "v2" -> Join(projectRoot, <<"..">> \o path)
      [] v = "v3" -> Join(projectRoot, TrimPrefixSrc(normalizePath(path)))

Call(op, p) == [op |-> op, path |-> p]

\* what a step changed in the tree: created or removed directories, created,
\* removed or (re)written files
Mutated(f, d, f2, d2, written) ==
    (d2 \ d) \cup (d \ d2) \cup ((DOMAIN f2) \ (DOMAIN f)) \cup ((DOMAIN f) \ (DOMAIN f2))
    \cup written

StepResult(f, d, f2, d2, written, outcome, reason, err, calls) ==
    [files |-> f2, dirs |-> d2, outcome |-> outcome, reason |-> reason,
     err |-> err, calls |-> calls, mutated |-> Mutated(f, d, f2, d2, written)]

\* variant of ApplyWrite that logs a WriteFile error and goes on
ApplyWrite_ignoresWriteError(f, d, full, act, fault, trunc) ==
    LET mk == MkdirAll(f, d, Dir(full), fault = "MkdirAll") IN
    IF mk.err # ""
    THEN StepResult(f, d, f, mk.dirs, {}, "failed", "io", mk.err,
                    <<Call("MkdirAll", Dir(full))>>)
    ELSE LET wr == WriteFile(f, mk.dirs, full, act.content, fault = "WriteFile", trunc) IN
         StepResult(f, d, wr.files, mk.dirs, IF wr.wrote THEN {full} ELSE {},
                    "applied", "", wr.err,
                    <<Call("MkdirAll", Dir(full)), Call("WriteFile", full)>>)

\* variant of ApplyWrite that writes the content of a create only
ApplyWrite_updateKeeps(f, d, full, act, fault, trunc) ==
    LET mk == MkdirAll(f, d, Dir(full), fault = "MkdirAll") IN
    IF mk.err # ""
    THEN StepResult(f, d, f, mk.dirs, {}, "failed", "io", mk.err,
                    <<Call("MkdirAll", Dir(full))>>)
    ELSE IF act.type = "update" /\ IsFile(f, full)
    THEN StepResult(f, d, f, mk.dirs, {}, "applied", "", "",
                    <<Call("MkdirAll", Dir(full))>>)
    ELSE LET wr == WriteFile(f, mk.dirs, full, act.content, fault = "WriteFile", trunc) IN
         StepResult(f, d, wr.files, mk.dirs, IF wr.wrote THEN {full} ELSE {},
                    IF wr.err = "" THEN "applied" ELSE "failed",
                    IF wr.err = "" THEN "" ELSE "io", wr.err,
                    <<Call("MkdirAll", Dir(full)), Call("WriteFile", full)>>)

\* case "create", "update"
ApplyWrite(f, d, full, act, fault, trunc) ==
    LET mk == MkdirAll(f, d, Dir(full), fault = "MkdirAll") IN
    IF mk.err # ""
    THEN StepResult(f, d, f, mk.dirs, {}, "failed", "io", mk.err,
                    <<Call("MkdirAll", Dir(full))>>)
    ELSE LET wr == WriteFile(f, mk.dirs, full, act.content, fault = "WriteFile", trunc) IN
         StepResult(f, d, wr.files, mk.dirs, IF wr.wrote THEN {full} ELSE {},
                    IF wr.err = "" THEN "applied" ELSE "failed",
                    IF wr.err = "" THEN "" ELSE "io", wr.err,
                    <<Call("MkdirAll", Dir(full)), Call("WriteFile", full)>>)

\* case "delete"
ApplyDelete(f, d, full, fault) ==
    LET rm == Remove(f, d, full, fault = "Remove") IN
    IF rm.err # "" /\ ~IsNotExist(rm.err)
    THEN StepResult(f, d, rm.files, rm.dirs, {}, "failed", "io", rm.err,
                    <<Call("Remove", full)>>)
    ELSE StepResult(f, d, rm.files, rm.dirs, {}, "applied", "", rm.err,
                    <<Call("Remove", full)>>)

\* variant of ApplyOne whose default case returns an error
ApplyOne_unknownFails(v, f, d, act, fault, trunc) ==
    IF SkipsProtected(v, act.path)
    THEN StepResult(f, d, f, d, {}, "skipped", "protected", "", <<>>)
    ELSE IF SkipsEscape(v, act.path)
    THEN StepResult(f, d, f, d, {}, "skipped", "escape", "", <<>>)
    ELSE CASE act.type \in {"create", "update"} ->
                ApplyWrite(f, d, FullPath(v, act.path), act, fault, trunc)
           [] act.type = "delete" ->
                ApplyDelete(f, d, FullPath(v, act.path), fault)
           [] OTHER ->
                StepResult(f, d, f, d, {}, "failed", "unknown type", "", <<>>)

\* variant of ApplyOne that takes every type but create and update for a delete
ApplyOne_unknownDeletes(v, f, d, act, fault, trunc) ==
    IF SkipsProtected(v, act.path)
    THEN StepResult(f, d, f, d, {}, "skipped", "protected", "", <<>>)
    ELSE IF SkipsEscape(v, act.path)
    THEN StepResult(f, d, f, d, {}, "skipped", "escape", "", <<>>)
    ELSE CASE act.type \in {"create", "update"} ->
                ApplyWrite(f, d, FullPath(v, act.path), act, fault, trunc)
           [] OTHER ->
                ApplyDelete(f, d, FullPath(v, act.path), fault)

\* one iteration of the loop of applyEdits over act
ApplyOne(v, f, d, act, fault, trunc) ==
    IF SkipsProtected(v, act.path)
    THEN StepResult(f, d, f, d, {}, "skipped", "protected", "", <<>>)
    ELSE IF SkipsEscape(v, act.path)
    THEN StepResult(f, d, f, d, {}, "skipped", "escape", "", <<>>)
    ELSE CASE act.type \in {"create", "update"} ->
                ApplyWrite(f, d, FullPath(v, act.path), act, fault, trunc)
           [] act.type = "delete" ->
                ApplyDelete(f, d, FullPath(v, act.path), fault)
           [] OTHER ->
                StepResult(f, d, f, d, {}, "skipped", "unknown type", "", <<>>)

\* applyEdits over acts from the tree (f, d) when the environment injects no
\* fault: the tree it leaves, whether it returned an error, and the outcome of
\* every action it reached
RECURSIVE RunBatch(_, _, _, _)
RunBatch(v, f, d, acts) ==
    IF acts = <<>>
    THEN [files |-> f, dirs |-> d, failed |-> FALSE, outcomes |-> <<>>]
    ELSE LET res == ApplyOne(v, f, d, Head(acts), "none", FALSE) IN
         IF res.outcome = "failed"
         THEN [files |-> res.files, dirs |-> res.dirs, failed |-> TRUE,
               outcomes |-> <<"failed">>]
         ELSE LET rest == RunBatch(v, res.files, res.dirs, Tail(acts)) IN
              [rest EXCEPT !.outcomes = <<res.outcome>> \o @]

----------------------------------------------------------------------------
(* callOllama of v2: the checks on the decoded list *)

\* variant of LimitActions that keeps the last 100
LimitActions_keepsLast(acts) ==
    IF Len(acts) > HardCap
    THEN SubSeq(acts, Len(acts) - HardCap + 1, Len(acts))
    ELSE acts

\* edits.Actions = edits.Actions[:100] when there are more than 100
LimitActions(acts) ==
    IF Len(acts) > HardCap THEN SubSeq(acts, 1, HardCap) ELSE acts

\* the only effect of the 50 threshold is a log line
WarnsLarge(acts) == Len(acts) <= HardCap /\ Len(acts) > SoftCap

\* from "if len(edits.Actions) == 0" to "return edits, nil"
callOllamaChecks(acts) ==
    IF Len(acts) = 0
    THEN [err |-> "no actions returned by AI", actions |-> <<>>, warned |-> FALSE]
    ELSE [err |-> "", actions |-> LimitActions(acts), warned |-> WarnsLarge(acts)]

----------------------------------------------------------------------------
(* cleanAIResponse of part_001; a text is the sequence of its characters *)

\* strings.Index(s, c) for a one-character c: 0-based, -1 when absent
Index(s, c) ==
    IF \E i \in 1..Len(s) : s[i] = c
    THEN (CHOOSE i \in 1..Len(s) : s[i] = c /\ \A j \in 1..(i - 1) : s[j] # c) - 1
    ELSE -1

\* strings.LastIndex(s, c) for a one-character c
LastIndex(s, c) ==
    IF \E i \in 1..Len(s) : s[i] = c
    THEN (CHOOSE i \in 1..Len(s) : s[i] = c /\ \A j \in (i + 1)..Len(s) : s[j] # c) - 1
    ELSE -1

HasPrefix(s, old) == Len(s) >= Len(old) /\ SubSeq(s, 1, Len(old)) = old

\* strings.ReplaceAll(s, old, new): the non-overlapping matches, left to right
RECURSIVE ReplaceAll(_, _, _)
ReplaceAll(s, old, new) ==
    IF Len(s) < Len(old) THEN s
    ELSE IF HasPrefix(s, old)
         THEN new \o ReplaceAll(SubSeq(s, Len(old) + 1, Len(s)), old, new)
         ELSE <<Head(s)>> \o ReplaceAll(Tail(s), old, new)

\* variant of TrimBefore that keeps the text before the first "{"
TrimBefore_off(s) == s

\* "Remove any text before the first {"
TrimBefore(s) ==
    LET startIndex == Index(s, "{") IN
    IF startIndex > 0 THEN SubSeq(s, startIndex + 1, Len(s)) ELSE s

\* "Remove any text after the last }"
TrimAfter(s) ==
    LET lastIndex == LastIndex(s, "}") IN
    IF lastIndex > 0 /\ lastIndex < Len(s) - 1 THEN SubSeq(s, 1, lastIndex + 1) ELSE s

\* the texts the replacements look for
Esc003c == <<"\\", "u", "0", "0", "3", "c">>

Esc003e == <<"\\", "u", "0", "0", "3", "e">>

Esc0026 == <<"\\", "u", "0", "0", "2", "6">>

Esc0027 == <<"\\", "u", "0", "0", "2", "7">>

Esc0022 == <<"\\", "u", "0", "0", "2", "2">>

EscUn == <<"\\", "u", "n">>

EscN == <<"\\", "n">>

ParenN == <<")", ";", "n", "}">>

\* the eight strings.ReplaceAll calls, in the order of the code
FixEscapes(s) ==
    LET r1 == ReplaceAll(s, Esc003c, <<"<">>)
        r2 == ReplaceAll(r1, Esc003e, <<">">>)
        r3 == ReplaceAll(r2, Esc0026, <<"&">>)
        r4 == ReplaceAll(r3, Esc0027, <<"'">>)
        r5 == ReplaceAll(r4, Esc0022, <<"\"">>)
        r6 == ReplaceAll(r5, EscUn, EscN)
        r7 == ReplaceAll(r6, ParenN, <<")", ";", "}">>)
    IN  ReplaceAll(r7, EscN \o <<"}">>, <<"}">>)

cleanAIResponse(s) == FixEscapes(TrimAfter(TrimBefore(s)))

NoClean == [text |-> <<>>, returned |-> FALSE, second |-> <<>>, twice |-> FALSE]

----------------------------------------------------------------------------
(* gatherContextJSON *)

\* The file names of the inputs that end with a given extension.
SuffixTable ==
    { <<"App.tsx", ".tsx">>, <<"SidePanel.tsx", ".tsx">>, <<"N.tsx", ".tsx">>,
      <<"a..b.tsx", ".tsx">>, <<"util.ts", ".ts">> }

\* strings.HasSuffix(path, ext) for an ext without "/"
HasSuffix(path, ext) == path # <<>> /\ <<path[Len(path)], ext>> \in SuffixTable

SourceExts == {".tsx", ".ts", ".jsx", ".js", ".css", ".html"}

\* strings.TrimPrefix(path, projectRoot + "/")
TrimPrefixRoot(path) ==
    IF Inside(projectRoot, path)
    THEN SubSeq(path, Len(projectRoot) + 1, Len(path))
    ELSE path

\* the FileJSON entries of the walk over the tree below projectRoot: a regular
\* file with a source extension, its path without the root and its content
gatherContextJSON(f) ==
    { [path |-> TrimPrefixRoot(p), content |-> f[p]] :
        p \in { q \in DOMAIN f :
                  /\ Inside(projectRoot, q)
                  /\ \E ext \in SourceExts : HasSuffix(q, ext) } }

----------------------------------------------------------------------------
(* handleEdit *)

Providers == {"openrouter", "ollama", "gpt"}

NoResp == [status |-> "none", code |-> 0, applied |-> -1]

ErrorResp(code) == [status |-> "error", code |-> code, applied |-> -1]

\* variant of SuccessResp that counts the actions of a known type
SuccessResp_countsKnown(v, acts) ==
    [status |-> "success", code |-> 200,
     applied |-> IF v = "v2" THEN -1
                 ELSE Cardinality({ i \in 1..Len(acts) :
                                      acts[i].type \in {"create", "update", "delete"} })]

\* {"status": "success", "applied": len(edits.Actions)}; v2 sends no count
SuccessResp(v, acts) ==
    [status |-> "success", code |-> 200,
     applied |-> IF v = "v2" THEN -1 ELSE Len(acts)]

Batches == UNION { [1..n -> Actions] : n \in 0..MaxBatch }

\* what the completion provider and the decode of its answer can give:
\* a failed call, text json.Unmarshal rejects, or a decoded action list
Replies ==
    { [kind |-> "neterr", actions |-> <<>>], [kind |-> "malformed", actions |-> <<>>] }
    \cup { [kind |-> "json", actions |-> b] : b \in Batches }

\* handleEdit up to and including gatherContextJSON
handleEditBegin(method, bodyOk, prov, gatherOk) ==
    IF method # "POST"
    THEN [pc |-> "done", resp |-> ErrorResp(405), errAt |-> "method"]
    ELSE IF ~bodyOk
    THEN [pc |-> "done", resp |-> ErrorResp(400), errAt |-> "body"]
    ELSE IF ~gatherOk
    THEN [pc |-> "done", resp |-> ErrorResp(500), errAt |-> "gather"]
    ELSE [pc |-> "gathered", resp |-> NoResp, errAt |-> ""]

\* variant of ValidProvider that takes every name
ValidProvider_any(v, prov) == TRUE

\* v1 and v3 call a provider only for the two known names
ValidProvider(v, prov) == v = "v2" \/ prov \in {"openrouter", "ollama"}

\* variant of handleEditDecode that drops the json.Unmarshal error
handleEditDecode_ignoresParseError(v, prov, reply) ==
    IF ~ValidProvider(v, prov)
    THEN [pc |-> "done", resp |-> ErrorResp(400), errAt |-> "provider name",
          called |-> FALSE, invoked |-> FALSE, batch |-> <<>>]
    ELSE IF reply.kind = "neterr"
    THEN [pc |-> "done", resp |-> ErrorResp(500), errAt |-> "provider",
          called |-> TRUE, invoked |-> FALSE, batch |-> <<>>]
    ELSE [pc |-> "applying", resp |-> NoResp, errAt |-> "",
          called |-> TRUE, invoked |-> TRUE, batch |-> reply.actions]

\* handleEdit from the provider switch to the call of applyEdits
handleEditDecode(v, prov, reply) ==
    IF ~ValidProvider(v, prov)
    THEN [pc |-> "done", resp |-> ErrorResp(400), errAt |-> "provider name",
          called |-> FALSE, invoked |-> FALSE, batch |-> <<>>]
    ELSE IF reply.kind = "neterr"
    THEN [pc |-> "done", resp |-> ErrorResp(500), errAt |-> "provider",
          called |-> TRUE, invoked |-> FALSE, batch |-> <<>>]
    ELSE IF reply.kind = "malformed"
    THEN [pc |-> "done", resp |-> ErrorResp(500), errAt |-> "parse",
          called |-> TRUE, invoked |-> FALSE, batch |-> <<>>]
    ELSE IF v = "v2" /\ callOllamaChecks(reply.actions).err # ""
    THEN [pc |-> "done", resp |-> ErrorResp(500), errAt |-> "empty",
          called |-> TRUE, invoked |-> FALSE, batch |-> <<>>]
    ELSE [pc |-> "applying", resp |-> NoResp, errAt |-> "",
          called |-> TRUE, invoked |-> TRUE,
          batch |-> IF v = "v2" THEN callOllamaChecks(reply.actions).actions
                    ELSE reply.actions]

\* the faults the environment can inject into the calls an action makes
FaultChoices(act) ==
    {<<"none", FALSE>>}
    \cup (IF act.type \in {"create", "update"}
          THEN {<<"MkdirAll", FALSE>>, <<"WriteFile", FALSE>>, <<"WriteFile", TRUE>>}
          ELSE {})
    \cup (IF act.type = "delete" THEN {<<"Remove", FALSE>>} ELSE {})

NoStep ==
    [req |-> "", index |-> 0, act |-> NoAction, outcome |-> "", reason |-> "",
     err |-> "", calls |-> <<>>, mutated |-> {}, fault |-> "none",
     existed |-> FALSE, underFile |-> FALSE]

----------------------------------------------------------------------------
(* The state machine *)

StartDirs ==
    { <<"..", "frontend">>, projectRoot, projectRoot \o <<"components">> }

SidePanelFile == projectRoot \o <<"components", "SidePanel.tsx">>

AppFile == projectRoot \o <<"App.tsx">>

\* the trees the server can start on: with and without the side panel
StartTrees ==
    { [files |-> (AppFile :> "app") @@ (SidePanelFile :> "panel"), dirs |-> StartDirs],
      [files |-> (AppFile :> "app"), dirs |-> StartDirs] }

NoCap == [err |-> "", actions |-> <<>>, warned |-> FALSE, returned |-> FALSE]

\* decoded lists of every length up to MaxDecoded; the i-th action names file i
DecodedAction(t, i) == [type |-> t, path |-> <<"src", ToString(i)>>, content |-> ""]

DecodedLists ==
    { [i \in 1..n |-> DecodedAction(t, i)] : n \in 0..MaxDecoded, t \in {"create", "delete"} }

InitWith(vs) ==
    /\ variant \in vs
    /\ tree0 \in StartTrees
    /\ files = tree0.files
    /\ dirs = tree0.dirs
    /\ pc = [r \in Reqs |-> IF r = "r1" THEN "idle" ELSE "off"]
    /\ provider = [r \in Reqs |-> ""]
    /\ batch = [r \in Reqs |-> <<>>]
    /\ idx = [r \in Reqs |-> 0]
    /\ resp = [r \in Reqs |-> NoResp]
    /\ errAt = [r \in Reqs |-> ""]
    /\ seen = [r \in Reqs |-> ""]
    /\ called = [r \in Reqs |-> FALSE]
    /\ invoked = [r \in Reqs |-> FALSE]
    /\ touched = [r \in Reqs |-> {}]
    /\ last = NoStep
    /\ decoded = <<>>
    /\ capped = NoCap
    /\ response = <<>>
    /\ cleaned = NoClean
    /\ context = [r \in Reqs |-> {}]

Init == InitWith({"v3"})

InitMain == InitWith({"v1", "v2"})

InitGuarded == InitWith({"v1", "v3"})

\* a request arrives: method check, body decode, gatherContextJSON
Begin(r) ==
    /\ pc[r] = "idle"
    /\ \E method \in {"POST", "GET"}, bodyOk \in BOOLEAN,
          prov \in Providers, gatherOk \in BOOLEAN :
         LET b == handleEditBegin(method, bodyOk, prov, gatherOk) IN
         /\ pc' = [pc EXCEPT ![r] = b.pc]
         /\ resp' = [resp EXCEPT ![r] = b.resp]
         /\ errAt' = [errAt EXCEPT ![r] = b.errAt]
         /\ provider' = [provider EXCEPT ![r] = IF b.pc = "gathered" THEN prov ELSE ""]
         /\ seen' = [seen EXCEPT ![r] =
                        IF method = "POST" /\ bodyOk /\ ~gatherOk
                        THEN "gather failed" ELSE ""]
         /\ context' = [context EXCEPT ![r] =
                           IF b.pc = "gathered" THEN gatherContextJSON(files)
                           ELSE {}]
    /\ UNCHANGED <<variant, files, dirs, tree0, batch, idx, called, invoked,
                   touched, last, decoded, capped, response, cleaned>>

\* the provider switch, the provider call and the decode of its answer, the
\* provider's reply being one of replies
CallProviderOf(r, replies) ==
    /\ pc[r] = "gathered"
    /\ \E reply \in replies :
         LET h == handleEditDecode(variant, provider[r], reply) IN
         /\ pc' = [pc EXCEPT ![r] = h.pc]
         /\ resp' = [resp EXCEPT ![r] = h.resp]
         /\ errAt' = [errAt EXCEPT ![r] = h.errAt]
         /\ called' = [called EXCEPT ![r] = h.called]
         /\ invoked' = [invoked EXCEPT ![r] = h.invoked]
         /\ batch' = [batch EXCEPT ![r] = h.batch]
         /\ idx' = [idx EXCEPT ![r] = IF h.pc = "applying" THEN 1 ELSE 0]
         \* req.Provider is not read after the switch: the two names the switch
         \* knows are not told apart from here on (v2 has no switch)
         /\ provider' = [provider EXCEPT ![r] =
                            IF variant = "v2" \/ @ \in {"openrouter", "ollama"}
                            THEN "" ELSE @]
         /\ seen' = [seen EXCEPT ![r] =
                        IF ValidProvider(variant, provider[r]) THEN reply.kind
                        ELSE "no call"]
    /\ UNCHANGED <<variant, files, dirs, tree0, touched, last, decoded, capped,
                   response, cleaned, context>>

CallProvider(r) == CallProviderOf(r, Replies)

\* variant of ApplyStep that ranges over the batch from its last action
ApplyStep_backwards(r) ==
    /\ pc[r] = "applying"
    /\ idx[r] <= Len(batch[r])
    /\ LET act == batch[r][Len(batch[r]) + 1 - idx[r]] IN
       \E fc \in FaultChoices(act) :
       \E res \in {ApplyOne(variant, files, dirs, act, fc[1], fc[2])} :
         /\ files' = res.files
         /\ dirs' = res.dirs
         /\ touched' = [touched EXCEPT ![r] = @ \cup res.mutated]
         /\ last' = [req |-> r, index |-> idx[r], act |-> act,
                     outcome |-> res.outcome, reason |-> res.reason,
                     err |-> res.err, calls |-> res.calls,
                     mutated |-> res.mutated,
                     fault |-> IF \E i \in 1..Len(res.calls) : res.calls[i].op = fc[1]
                               THEN fc[1] ELSE "none",
                     existed |-> LET p == FullPath(variant, act.path)
                                 IN IsFile(files, p) \/ IsDir(dirs, p),
                     underFile |-> UnderFile(files, FullPath(variant, act.path))]
         /\ IF res.outcome = "failed"
            THEN /\ pc' = [pc EXCEPT ![r] = "done"]
                 /\ resp' = [resp EXCEPT ![r] = ErrorResp(500)]
                 /\ errAt' = [errAt EXCEPT ![r] = "apply"]
                 /\ idx' = idx
            ELSE /\ idx' = [idx EXCEPT ![r] = @ + 1]
                 /\ UNCHANGED <<pc, resp, errAt>>
    /\ UNCHANGED <<variant, tree0, provider, batch, seen, called, invoked,
                   decoded, capped, response, cleaned, context>>

\* variant of ApplyStep that puts the tree of the start back when an action fails
ApplyStep_rollsBack(r) ==
    /\ pc[r] = "applying"
    /\ idx[r] <= Len(batch[r])
    /\ LET act == batch[r][idx[r]] IN
       \E fc \in FaultChoices(act) :
       \E res \in {ApplyOne(variant, files, dirs, act, fc[1], fc[2])} :
         /\ files' = (IF res.outcome = "failed" THEN tree0.files ELSE res.files)
         /\ dirs' = (IF res.outcome = "failed" THEN tree0.dirs ELSE res.dirs)
         /\ touched' = [touched EXCEPT ![r] = @ \cup res.mutated]
         /\ last' = [req |-> r, index |-> idx[r], act |-> act,
                     outcome |-> res.outcome, reason |-> res.reason,
                     err |-> res.err, calls |-> res.calls,
                     mutated |-> res.mutated,
                     fault |-> IF \E i \in 1..Len(res.calls) : res.calls[i].op = fc[1]
                               THEN fc[1] ELSE "none",
                     existed |-> LET p == FullPath(variant, act.path)
                                 IN IsFile(files, p) \/ IsDir(dirs, p),
                     underFile |-> UnderFile(files, FullPath(variant, act.path))]
         /\ IF res.outcome = "failed"
            THEN /\ pc' = [pc EXCEPT ![r] = "done"]
                 /\ resp' = [resp EXCEPT ![r] = ErrorResp(500)]
                 /\ errAt' = [errAt EXCEPT ![r] = "apply"]
                 /\ idx' = idx
            ELSE /\ idx' = [idx EXCEPT ![r] = @ + 1]
                 /\ UNCHANGED <<pc, resp, errAt>>
    /\ UNCHANGED <<variant, tree0, provider, batch, seen, called, invoked,
                   decoded, capped, response, cleaned, context>>

\* one iteration of the loop of applyEdits; an error returns from applyEdits
\* and handleEdit answers 500
ApplyStep(r) ==
    /\ pc[r] = "applying"
    /\ idx[r] <= Len(batch[r])
    /\ LET act == batch[r][idx[r]] IN
       \E fc \in FaultChoices(act) :
       \E res \in {ApplyOne(variant, files, dirs, act, fc[1], fc[2])} :
         /\ files' = res.files
         /\ dirs' = res.dirs
         /\ touched' = [touched EXCEPT ![r] = @ \cup res.mutated]
         /\ last' = [req |-> r, index |-> idx[r], act |-> act,
                     outcome |-> res.outcome, reason |-> res.reason,
                     err |-> res.err, calls |-> res.calls,
                     mutated |-> res.mutated,
                     fault |-> IF \E i \in 1..Len(res.calls) : res.calls[i].op = fc[1]
                               THEN fc[1] ELSE "none",
                     existed |-> LET p == FullPath(variant, act.path)
                                 IN IsFile(files, p) \/ IsDir(dirs, p),
                     underFile |-> UnderFile(files, FullPath(variant, act.path))]
         /\ IF res.outcome = "failed"
            THEN /\ pc' = [pc EXCEPT ![r] = "done"]
                 /\ resp' = [resp EXCEPT ![r] = ErrorResp(500)]
                 /\ errAt' = [errAt EXCEPT ![r] = "apply"]
                 /\ idx' = idx
            ELSE /\ idx' = [idx EXCEPT ![r] = @ + 1]
                 /\ UNCHANGED <<pc, resp, errAt>>
    /\ UNCHANGED <<variant, tree0, provider, batch, seen, called, invoked,
                   decoded, capped, response, cleaned, context>>

\* applyEdits returned nil: the success response
Finish(r) ==
    /\ pc[r] = "applying"
    /\ idx[r] > Len(batch[r])
    /\ pc' = [pc EXCEPT ![r] = "done"]
    /\ resp' = [resp EXCEPT ![r] = SuccessResp(variant, batch[r])]
    /\ UNCHANGED <<variant, files, dirs, tree0, provider, batch, idx, errAt, seen,
                   called, invoked, touched, last, decoded, capped, response, cleaned, context>>

\* callOllama of v2, from the decoded list to its return
callOllamaReturn ==
    /\ ~capped.returned
    /\ LET c == callOllamaChecks(decoded) IN
       capped' = [err |-> c.err, actions |-> c.actions, warned |-> c.warned,
                  returned |-> TRUE]
    /\ UNCHANGED <<variant, files, dirs, tree0, pc, provider, batch, idx, resp,
                   errAt, seen, called, invoked, touched, last, decoded,
                   response, cleaned, context>>

InitCap ==
    /\ variant = "v2"
    /\ tree0 \in StartTrees
    /\ files = tree0.files
    /\ dirs = tree0.dirs
    /\ pc = [r \in Reqs |-> "off"]
    /\ provider = [r \in Reqs |-> ""]
    /\ batch = [r \in Reqs |-> <<>>]
    /\ idx = [r \in Reqs |-> 0]
    /\ resp = [r \in Reqs |-> NoResp]
    /\ errAt = [r \in Reqs |-> ""]
    /\ seen = [r \in Reqs |-> ""]
    /\ called = [r \in Reqs |-> FALSE]
    /\ invoked = [r \in Reqs |-> FALSE]
    /\ touched = [r \in Reqs |-> {}]
    /\ last = NoStep
    /\ decoded \in DecodedLists
    /\ capped = NoCap
    /\ response = <<>>
    /\ cleaned = NoClean
    /\ context = [r \in Reqs |-> {}]

NextCap == callOllamaReturn

SpecCap == InitCap /\ [][NextCap]_vars

\* the pieces raw texts are put together from: the opening and the closing of
\* an object with one string member, single braces, a plain character, and
\* the character runs the replacements look for
JsonOpen == <<"{", "\"", "a", "\"", ":", "\"">>

JsonClose == <<"\"", "}">>

Pieces ==
    { JsonOpen, JsonClose, <<"{">>, <<"}">>, <<"x">>,
      Esc003c, Esc0022, EscN, EscUn, <<")", ";", "n">> }

RECURSIVE Concat(_)
Concat(ps) == IF ps = <<>> THEN <<>> ELSE Head(ps) \o Concat(Tail(ps))

RawTexts == { Concat(ps) : ps \in UNION { [1..n -> Pieces] : n \in 0..MaxPieces } }

\* cleanAIResponse, from its call to its return
cleanAIResponseReturn ==
    /\ ~cleaned.returned
    /\ cleaned' = [cleaned EXCEPT !.text = cleanAIResponse(response),
                                  !.returned = TRUE]
    /\ UNCHANGED <<variant, files, dirs, tree0, pc, provider, batch, idx, resp,
                   errAt, seen, called, invoked, touched, last, decoded, capped,
                   response, context>>

InitClean ==
    /\ variant = "v3"
    /\ tree0 \in StartTrees
    /\ files = tree0.files
    /\ dirs = tree0.dirs
    /\ pc = [r \in Reqs |-> "off"]
    /\ provider = [r \in Reqs |-> ""]
    /\ batch = [r \in Reqs |-> <<>>]
    /\ idx = [r \in Reqs |-> 0]
    /\ resp = [r \in Reqs |-> NoResp]
    /\ errAt = [r \in Reqs |-> ""]
    /\ seen = [r \in Reqs |-> ""]
    /\ called = [r \in Reqs |-> FALSE]
    /\ invoked = [r \in Reqs |-> FALSE]
    /\ touched = [r \in Reqs |-> {}]
    /\ last = NoStep
    /\ decoded = <<>>
    /\ capped = NoCap
    /\ response \in RawTexts
    /\ cleaned = NoClean
    /\ context = [r \in Reqs |-> {}]

\* the provider call has returned the cleaned text and handleEdit cleans it
\* once more before it parses it
handleEditClean ==
    /\ cleaned.returned
    /\ ~cleaned.twice
    /\ cleaned' = [cleaned EXCEPT !.second = cleanAIResponse(cleaned.text),
                                  !.twice = TRUE]
    /\ UNCHANGED <<variant, files, dirs, tree0, pc, provider, batch, idx, resp,
                   errAt, seen, called, invoked, touched, last, decoded, capped,
                   response, context>>

NextClean == cleanAIResponseReturn \/ handleEditClean

SpecClean == InitClean /\ [][NextClean]_vars

Next == \E r \in Reqs : Begin(r) \/ CallProvider(r) \/ ApplyStep(r) \/ Finish(r)

Spec == Init /\ [][Next]_vars

SpecMain == InitMain /\ [][Next]_vars

SpecGuarded == InitGuarded /\ [][Next]_vars

\* batches about one existing file and one new file in a new directory, each
\* named with and without the "src/" prefix: the file of App.tsx written with
\* two contents and with none, a path with the prefix twice, and a path below
\* the regular file
FilePaths ==
    { <<"App.tsx">>, <<"src", "App.tsx">>,
      <<"new", "N.tsx">>, <<"src", "new", "N.tsx">>,
      <<"src", "src", "App.tsx">>,
      <<"src", "App.tsx", "x">> }

FileActions ==
    { a \in [type : {"create", "update", "delete"}, path : FilePaths,
             content : {"", "X", "Y"}] :
        /\ a.type = "create" => a.content = "X"
        /\ a.type = "update" => a.content \in {"", "Y"}
        /\ (a.type = "update" /\ a.content = "") => a.path = <<"src", "App.tsx">>
        /\ a.type = "delete" => a.content = ""
        /\ a.path = <<"src", "src", "App.tsx">> => a.type \in {"create", "delete"}
        /\ a.path = <<"src", "App.tsx", "x">> => a.type = "create" }

FileBatches == UNION { [1..n -> FileActions] : n \in 0..MaxBatch }

FileReplies ==
    { [kind |-> "neterr", actions |-> <<>>], [kind |-> "malformed", actions |-> <<>>] }
    \cup { [kind |-> "json", actions |-> b] : b \in FileBatches }

\* two requests served at once, each by its own goroutine of net/http, with no
\* lock around applyEdits: the first is answered creates with a two-character
\* content, the second updates with a one-character content, of the same two
\* files
PairPaths == { <<"src", "App.tsx">>, <<"src", "new", "N.tsx">> }

PairActions(r) ==
    { [type |-> IF r = "r1" THEN "create" ELSE "update", path |-> p,
       content |-> IF r = "r1" THEN "XX" ELSE "Y"] : p \in PairPaths }

PairReplies(r) ==
    { [kind |-> "neterr", actions |-> <<>>] }
    \cup { [kind |-> "json", actions |-> b] :
             b \in UNION { [1..n -> PairActions(r)] : n \in 0..MaxBatch } }

\* the number of bytes of a content
Size(c) ==
    CASE c = "" -> 0
      [] c \in {"X", "Y"} -> 1
      [] c \in {"XX", "YX"} -> 2
      [] OTHER -> 3

\* a write of c at offset 0 of a file that holds e: the bytes of e beyond the
\* length of c stay
Overwrite(e, c) ==
    IF Size(c) >= Size(e) THEN c
    ELSE CASE c = "" -> e
           [] c = "Y" /\ e \in {"XX", "YX"} -> "YX"
           [] OTHER -> c

\* ioutil.WriteFile is os.OpenFile(O_WRONLY|O_CREATE|O_TRUNC), Write, Close:
\* the first half of a create or update, MkdirAll and the open that creates or
\* truncates the file
OpenStep(r) ==
    /\ pc[r] = "applying"
    /\ idx[r] <= Len(batch[r])
    /\ batch[r][idx[r]].type \in {"create", "update"}
    /\ LET act == batch[r][idx[r]] IN
       \E fault \in {"none", "MkdirAll", "WriteFile"} :
       \E res \in {ApplyOne(variant, files, dirs, [act EXCEPT !.content = ""],
                             fault, FALSE)} :
         /\ files' = res.files
         /\ dirs' = res.dirs
         /\ touched' = [touched EXCEPT ![r] = @ \cup res.mutated]
         /\ last' = [req |-> r, index |-> idx[r], act |-> act,
                     outcome |-> IF res.outcome = "applied" THEN "opened"
                                 ELSE res.outcome,
                     reason |-> res.reason, err |-> res.err, calls |-> res.calls,
                     mutated |-> res.mutated,
                     fault |-> IF \E i \in 1..Len(res.calls) : res.calls[i].op = fault
                               THEN fault ELSE "none",
                     existed |-> LET p == FullPath(variant, act.path)
                                 IN IsFile(files, p) \/ IsDir(dirs, p),
                     underFile |-> UnderFile(files, FullPath(variant, act.path))]
         /\ IF res.outcome = "failed"
            THEN /\ pc' = [pc EXCEPT ![r] = "done"]
                 /\ resp' = [resp EXCEPT ![r] = ErrorResp(500)]
                 /\ errAt' = [errAt EXCEPT ![r] = "apply"]
                 /\ idx' = idx
            ELSE /\ pc' = [pc EXCEPT ![r] =
                              IF res.outcome = "applied" THEN "writing" ELSE @]
                 /\ idx' = [idx EXCEPT ![r] =
                              IF res.outcome = "applied" THEN @ ELSE @ + 1]
                 /\ UNCHANGED <<resp, errAt>>
    /\ UNCHANGED <<variant, tree0, provider, batch, seen, called, invoked,
                   decoded, capped, response, cleaned, context>>

\* the second half: the Write of the content through the open descriptor, at
\* offset 0 of whatever the file holds by now, and the Close
WriteStep(r) ==
    /\ pc[r] = "writing"
    /\ LET act == batch[r][idx[r]]
           full == FullPath(variant, act.path)
       IN
       \E failed \in BOOLEAN :
         /\ files' = IF failed \/ ~IsFile(files, full) THEN files
                     ELSE [files EXCEPT ![full] = Overwrite(@, act.content)]
         /\ touched' = [touched EXCEPT ![r] = @ \cup {full}]
         /\ last' = [last EXCEPT !.req = r, !.index = idx[r], !.act = act,
                                 !.outcome = IF failed THEN "failed" ELSE "applied",
                                 !.reason = IF failed THEN "io" ELSE "",
                                 !.err = IF failed THEN "EIO" ELSE "",
                                 !.calls = <<Call("MkdirAll", Dir(full)),
                                             Call("WriteFile", full)>>,
                                 !.mutated = {full},
                                 !.fault = IF failed THEN "WriteFile" ELSE "none"]
         /\ IF failed
            THEN /\ pc' = [pc EXCEPT ![r] = "done"]
                 /\ resp' = [resp EXCEPT ![r] = ErrorResp(500)]
                 /\ errAt' = [errAt EXCEPT ![r] = "apply"]
                 /\ idx' = idx
            ELSE /\ pc' = [pc EXCEPT ![r] = "applying"]
                 /\ idx' = [idx EXCEPT ![r] = @ + 1]
                 /\ UNCHANGED <<resp, errAt>>
    /\ UNCHANGED <<variant, dirs, tree0, provider, batch, seen, called, invoked,
                   decoded, capped, response, cleaned, context>>

InitPair ==
    /\ variant = "v3"
    /\ tree0 \in StartTrees
    /\ files = tree0.files
    /\ dirs = tree0.dirs
    /\ pc = [r \in Reqs |-> "idle"]
    /\ provider = [r \in Reqs |-> ""]
    /\ batch = [r \in Reqs |-> <<>>]
    /\ idx = [r \in Reqs |-> 0]
    /\ resp = [r \in Reqs |-> NoResp]
    /\ errAt = [r \in Reqs |-> ""]
    /\ seen = [r \in Reqs |-> ""]
    /\ called = [r \in Reqs |-> FALSE]
    /\ invoked = [r \in Reqs |-> FALSE]
    /\ touched = [r \in Reqs |-> {}]
    /\ last = NoStep
    /\ decoded = <<>>
    /\ capped = NoCap
    /\ response = <<>>
    /\ cleaned = NoClean
    /\ context = [r \in Reqs |-> {}]

NextPair ==
    \E r \in Reqs :
        \/ Begin(r)
        \/ CallProviderOf(r, PairReplies(r))
        \/ OpenStep(r)
        \/ WriteStep(r)
        \/ Finish(r)

SpecPair == InitPair /\ [][NextPair]_vars

\* a project with a source file in a subdirectory named "src", and answers
\* that update the files the context reported, under the paths it reported
\* them with, or act on a file whose name has two dots in it or on a path
\* that leaves the project
SrcUtilFile == projectRoot \o <<"src", "util.ts">>

NameTrees ==
    { [files |-> (AppFile :> "app") @@ (SrcUtilFile :> "util"),
       dirs |-> StartDirs \cup {projectRoot \o <<"src">>}],
      [files |-> (AppFile :> "app") @@ (SrcUtilFile :> "util")
                 @@ (SidePanelFile :> "panel"),
       dirs |-> StartDirs \cup {projectRoot \o <<"src">>}] }

NameActions(r) ==
    { [type |-> "update", path |-> c.path, content |-> "Y"] : c \in context[r] }
    \cup { [type |-> "create", path |-> <<"a..b.tsx">>, content |-> "X"],
           [type |-> "delete", path |-> <<"a..b.tsx">>, content |-> ""],
           [type |-> "create", path |-> <<"..", "..", "etc", "passwd">>, content |-> "X"],
           [type |-> "create", path |-> <<"", "etc", "passwd">>, content |-> "X"] }

NameReplies(r) ==
    { [kind |-> "malformed", actions |-> <<>>] }
    \cup { [kind |-> "json", actions |-> b] :
             b \in UNION { [1..n -> NameActions(r)] : n \in 0..MaxBatch } }

InitNames ==
    /\ variant = "v3"
    /\ tree0 \in NameTrees
    /\ files = tree0.files
    /\ dirs = tree0.dirs
    /\ pc = [r \in Reqs |-> IF r = "r1" THEN "idle" ELSE "off"]
    /\ provider = [r \in Reqs |-> ""]
    /\ batch = [r \in Reqs |-> <<>>]
    /\ idx = [r \in Reqs |-> 0]
    /\ resp = [r \in Reqs |-> NoResp]
    /\ errAt = [r \in Reqs |-> ""]
    /\ seen = [r \in Reqs |-> ""]
    /\ called = [r \in Reqs |-> FALSE]
    /\ invoked = [r \in Reqs |-> FALSE]
    /\ touched = [r \in Reqs |-> {}]
    /\ last = NoStep
    /\ decoded = <<>>
    /\ capped = NoCap
    /\ response = <<>>
    /\ cleaned = NoClean
    /\ context = [r \in Reqs |-> {}]

NextNames ==
    \E r \in Reqs :
        Begin(r) \/ CallProviderOf(r, NameReplies(r)) \/ ApplyStep(r) \/ Finish(r)

SpecNames == InitNames /\ [][NextNames]_vars

NextFiles ==
    \E r \in Reqs :
        Begin(r) \/ CallProviderOf(r, FileReplies) \/ ApplyStep(r) \/ Finish(r)

SpecFiles == Init /\ [][NextFiles]_vars

----------------------------------------------------------------------------
(* Properties *)

Stepped == last.req # ""

\* the loop went on to the next action after the step in last
WentOn ==
    /\ idx[last.req] > last.index
    /\ errAt[last.req] # "apply"

\* the loop stopped at the step in last and the request was answered 500
Aborted ==
    /\ pc[last.req] = "done"
    /\ idx[last.req] = last.index
    /\ resp[last.req] = ErrorResp(500)
    /\ errAt[last.req] = "apply"

NoEffect == last.calls = <<>> /\ last.mutated = {}

\* the files whose path holds the protected marker
ProtectedFiles(f) == { p \in DOMAIN f : Contains(p, "SidePanel") }

\* C1: in the variants with the SidePanel guard (v1, v3) an action whose path
\* contains "SidePanel" is skipped whatever its type, without any filesystem
\* call, and every protected file exists with the same content as at the start
C1_ProtectedUntouched ==
    variant \in {"v1", "v3"} =>
        /\ (Stepped /\ Contains(last.act.path, "SidePanel")) =>
               (last.outcome = "skipped" /\ NoEffect /\ WentOn)
        /\ ProtectedFiles(files) = ProtectedFiles(tree0.files)
        /\ \A p \in ProtectedFiles(files) : files[p] = tree0.files[p]
        /\ \A p \in ProtectedFiles(tree0.files) : p \notin dirs

C1_Witness ==
    /\ variant = "v1"
    /\ Stepped
    /\ last.act.type = "delete"
    /\ Contains(last.act.path, "SidePanel")
    /\ last.index = 2
    /\ SidePanelFile \in DOMAIN files

\* C2: in part_001 (v3) an action whose path contains ".." or starts with "/"
\* is skipped whatever its type and makes no filesystem call
C2_EscapeSkipped ==
    (variant = "v3" /\ Stepped
       /\ (Contains(last.act.path, "..") \/ HasPrefixSlash(last.act.path))) =>
        (last.outcome = "skipped" /\ NoEffect /\ WentOn)

C2_Witness ==
    /\ variant = "v3"
    /\ Stepped
    /\ last.act.type = "create"
    /\ last.act.path = <<"..", "..", "etc", "passwd">>
    /\ last.reason = "escape"

\* C3: in main.go (v1, v2) every path a request creates, overwrites or removes
\* lies inside projectRoot
C3_MutationsInsideRoot ==
    variant \in {"v1", "v2"} =>
        \A r \in Reqs : \A p \in touched[r] : Inside(projectRoot, p)

\* an error of MkdirAll, WriteFile or Remove other than not-exist on Remove
IoFailure ==
    /\ Stepped
    /\ last.err # ""
    /\ ~(last.act.type = "delete" /\ last.err = "ENOENT")

C5_EarlyFailureAppliesNothing ==
    \A r \in Reqs :
        (variant = "v3" /\ seen[r] \in {"gather failed", "neterr", "malformed"}) =>
            /\ pc[r] = "done"
            /\ resp[r].status = "error"
            /\ ~invoked[r]
            /\ touched[r] = {}
            /\ idx[r] = 0

C5_Witness ==
    /\ variant = "v3"
    /\ seen["r1"] = "malformed"
    /\ resp["r1"] = ErrorResp(500)

C7_EmptyBatchIsError ==
    \A r \in Reqs :
        (variant = "v3" /\ seen[r] = "json" /\ batch[r] = <<>>) =>
            /\ ~invoked[r]
            /\ pc[r] = "done" => resp[r].status = "error"

\* C8: callOllama of v2 returns the first 100 actions, in order and without
\* error, of a decoded list of more than 100, and the same list of one of 1 to
\* 100; a list of 51 to 100 is only logged
C8_CapKeepsFirstHundred ==
    (capped.returned /\ Len(decoded) >= 1) =>
        /\ capped.err = ""
        /\ Len(capped.actions) = (IF Len(decoded) > 100 THEN 100 ELSE Len(decoded))
        /\ \A i \in 1..Len(capped.actions) : capped.actions[i] = decoded[i]
        /\ capped.warned <=> (Len(decoded) >= 51 /\ Len(decoded) <= 100)

C8_Witness ==
    /\ capped.returned
    /\ Len(decoded) > 100
    /\ Len(capped.actions) = 100

KnownTypes == {"create", "update", "delete"}

Drop(seq, k) == SubSeq(seq, 1, k - 1) \o SubSeq(seq, k + 1, Len(seq))

\* applyEdits over acts and over acts without its k-th action end alike: same
\* tree, same return, same outcomes of the other actions in the same order
SameWithout(v, f, d, acts, k) ==
    LET with == RunBatch(v, f, d, acts)
        without == RunBatch(v, f, d, Drop(acts, k))
    IN  /\ with.files = without.files
        /\ with.dirs = without.dirs
        /\ with.failed = without.failed
        /\ IF Len(with.outcomes) < k
           THEN with.outcomes = without.outcomes
           ELSE /\ with.outcomes[k] = "skipped"
                /\ Drop(with.outcomes, k) = without.outcomes

\* C9: an action of unrecognized type changes nothing in the file tree, makes no
\* filesystem call and is no error: the loop goes on with the next action; and
\* a batch with exactly one such action leaves the tree, and treats its other
\* actions in their order, as the batch without it does
C9_UnknownTypeIsNoOp ==
    /\ (Stepped /\ last.act.type \notin KnownTypes) =>
           (last.outcome = "skipped" /\ NoEffect /\ WentOn)
    /\ \A r \in Reqs :
         (pc[r] = "applying" /\ idx[r] = 1) =>
            \A k \in 1..Len(batch[r]) :
                ({ i \in 1..Len(batch[r]) : batch[r][i].type \notin KnownTypes } = {k})
                    => SameWithout(variant, files, dirs, batch[r], k)

C9_Witness ==
    /\ Stepped
    /\ last.act.type = "rename"
    /\ last.reason = "unknown type"
    /\ last.index = 1
    /\ Len(batch[last.req]) = 2
    /\ pc[last.req] = "applying"

\* a delete that reached os.Remove with no injected fault and no file or
\* directory at its target
DeleteOfMissing ==
    /\ Stepped
    /\ last.act.type = "delete"
    /\ last.outcome # "skipped"
    /\ last.fault = "none"
    /\ ~last.existed

HexDigits == {"0", "2", "3", "c"}

RECURSIVE IsStringBody(_)
IsStringBody(s) ==
    IF s = <<>> THEN TRUE
    ELSE IF Head(s) = "\"" THEN FALSE
    ELSE IF Head(s) # "\\" THEN IsStringBody(Tail(s))
    ELSE IF Len(s) >= 2 /\ s[2] \in {"\"", "\\", "/", "b", "f", "n", "r", "t"}
         THEN IsStringBody(SubSeq(s, 3, Len(s)))
    ELSE IF Len(s) >= 6 /\ s[2] = "u" /\ \A i \in 3..6 : s[i] \in HexDigits
         THEN IsStringBody(SubSeq(s, 7, Len(s)))
    ELSE FALSE

IsValidJSON(s) ==
    /\ Len(s) >= Len(JsonOpen) + Len(JsonClose)
    /\ HasPrefix(s, JsonOpen)
    /\ SubSeq(s, Len(s) - Len(JsonClose) + 1, Len(s)) = JsonClose
    /\ IsStringBody(SubSeq(s, Len(JsonOpen) + 1, Len(s) - Len(JsonClose)))

\* C12: cleanAIResponse returns a text that is already valid JSON, with nothing
\* before its first "{" and nothing after its last "}", unchanged, escape
\* sequences inside its string values included
C12_ValidJSONUnchanged ==
    (cleaned.returned /\ IsValidJSON(response)) => cleaned.text = response

\* a "{" occurs before the last "}"
HasBraceSpan(s) == Index(s, "{") >= 0 /\ Index(s, "{") < LastIndex(s, "}")

\* from the first "{" to the last "}"
BraceSpan(s) == SubSeq(s, Index(s, "{") + 1, LastIndex(s, "}") + 1)

\* C13: for a raw text in which a "{" occurs before the last "}",
\* cleanAIResponse drops all the text before the first "{" and after the last
\* "}": what it returns starts with "{", ends with "}" and is that span with
\* the replacements made in it
C13_TrimsToBraceSpan ==
    (cleaned.returned /\ HasBraceSpan(response)) =>
        /\ Len(cleaned.text) >= 2
        /\ cleaned.text[1] = "{"
        /\ cleaned.text[Len(cleaned.text)] = "}"
        /\ cleaned.text = FixEscapes(BraceSpan(response))

C13_Witness ==
    /\ cleaned.returned
    /\ response = <<"x">> \o JsonOpen \o JsonClose \o <<"x">>
    /\ cleaned.text = JsonOpen \o JsonClose

\* the tree a request's loop has made of the start tree when it has gone
\* through the first k actions of its batch
AfterPrefix(r, k) ==
    RunBatch(variant, tree0.files, tree0.dirs, SubSeq(batch[r], 1, k))

\* the step in last applied, without an injected fault, the update that the
\* action before it in the batch had applied
RepeatedUpdate ==
    /\ Stepped
    /\ last.act.type = "update"
    /\ last.index >= 2
    /\ batch[last.req][last.index - 1] = last.act
    /\ last.fault = "none"

\* C11: applying the same update (same path, same content) a second time, next
\* in the same batch or as the next batch, leaves the whole file tree as the
\* first application left it
C11_UpdateIdempotent ==
    /\ RepeatedUpdate =>
           LET once == AfterPrefix(last.req, last.index - 1) IN
           /\ last.outcome = "applied"
           /\ files = once.files
           /\ dirs = once.dirs
    /\ \A u \in FileActions :
         u.type = "update" =>
            LET once  == RunBatch(variant, files, dirs, <<u>>)
                again == RunBatch(variant, once.files, once.dirs, <<u>>)
            IN  ~once.failed =>
                   /\ ~again.failed
                   /\ again.files = once.files
                   /\ again.dirs = once.dirs

C11_Witness ==
    /\ RepeatedUpdate
    /\ last.act.path = <<"src", "App.tsx">>
    /\ last.act.content = "Y"
    /\ last.outcome = "applied"
    /\ files[AppFile] = "Y"
    /\ tree0.files[AppFile] = "app"

\* the path the step in last gave to its last filesystem call
Target == last.calls[Len(last.calls)].path

\* the filesystem calls of the step in last are those of an action on the file
\* full: MkdirAll on its directory, WriteFile or Remove on the file itself
CallsOn(full) ==
    \A i \in 1..Len(last.calls) :
        last.calls[i].path =
            (IF last.calls[i].op = "MkdirAll" THEN Dir(full) ELSE full)

C16_AppliedIsBatchLength ==
    \A r \in Reqs :
        (variant \in {"v1", "v3"} /\ resp[r].status = "success") =>
            /\ pc[r] = "done"
            /\ resp[r].applied = Len(batch[r])
            /\ idx[r] = Len(batch[r]) + 1

C16_Witness ==
    /\ variant = "v3"
    /\ resp["r1"].status = "success"
    /\ resp["r1"].applied = 2
    /\ touched["r1"] = {}
    /\ batch["r1"][1].type = "rename"
    /\ Stepped /\ last.index = 2 /\ last.reason = "escape"

ActingOn(r, n, p) ==
    { i \in 1..n :
        /\ batch[r][i].type \in KnownTypes
        /\ ~SkipsProtected(variant, batch[r][i].path)
        /\ ~SkipsEscape(variant, batch[r][i].path)
        /\ FullPath(variant, batch[r][i].path) = p }

Max(S) == CHOOSE x \in S : \A y \in S : y <= x

\* the number of actions the loop of request r has gone through, as long as
\* none has failed
Processed(r) == IF invoked[r] /\ errAt[r] # "apply" THEN idx[r] - 1 ELSE 0

\* C18: the loop takes the actions of a batch in their order, one by one, and
\* as long as no action has failed, a file that several processed actions
\* resolve to is as the last of them left it: present with that action's
\* content after a create or update, absent after a delete
C18_LastActionOnFileWins ==
    /\ Stepped =>
           /\ last.index \in 1..Len(batch[last.req])
           /\ last.act = batch[last.req][last.index]
           /\ idx[last.req] = (IF last.outcome = "failed" THEN last.index
                                ELSE last.index + 1)
    /\ \A r \in Reqs : \A i \in 1..Processed(r) :
         LET p == FullPath(variant, batch[r][i].path)
             on == ActingOn(r, Processed(r), p)
         IN  on # {} =>
                LET act == batch[r][Max(on)] IN
                IF act.type = "delete"
                THEN ~IsFile(files, p)
                ELSE IsFile(files, p) /\ files[p] = act.content

C18_Witness ==
    /\ resp["r1"].status = "success"
    /\ batch["r1"] = << [type |-> "delete", path |-> <<"src", "App.tsx">>, content |-> ""],
                        [type |-> "create", path |-> <<"App.tsx">>, content |-> "X"] >>
    /\ files[AppFile] = "X"

\* the step in last is a create or update that succeeded
WriteApplied ==
    /\ Stepped
    /\ last.act.type \in {"create", "update"}
    /\ last.outcome = "applied"

\* C19: after a create or update has succeeded every parent directory of its
\* target exists and the target is a file with exactly the content of the
\* action (none for an action without content), whether or not the file was
\* there before, for a create as for an update; MkdirAll and WriteFile were
\* both called, and apart from the target only directories on the way to it
\* are new
C19_WriteReplacesWholeFile ==
    WriteApplied =>
        LET full == FullPath(variant, last.act.path) IN
        /\ \A q \in Prefixes(Dir(full)) : IsDir(dirs, q)
        /\ IsFile(files, full)
        /\ files[full] = last.act.content
        /\ last.calls = <<Call("MkdirAll", Dir(full)), Call("WriteFile", full)>>
        /\ last.mutated \subseteq ({full} \cup Prefixes(Dir(full)))
        /\ full \in last.mutated
        /\ WentOn

C19_Witness ==
    /\ WriteApplied
    /\ last.act = [type |-> "update", path |-> <<"src", "App.tsx">>, content |-> ""]
    /\ last.existed
    /\ last.index = 2
    /\ batch[last.req][1] = [type |-> "create", path |-> <<"new", "N.tsx">>, content |-> "X"]
    /\ files[AppFile] = ""
    /\ files[projectRoot \o <<"new", "N.tsx">>] = "X"
    /\ projectRoot \o <<"new">> \in dirs

\* the files f and g are the same outside the paths of S
SameFilesOutside(S, f, g) ==
    /\ (DOMAIN f) \ S = (DOMAIN g) \ S
    /\ \A p \in (DOMAIN f) \ S : f[p] = g[p]

\* C20: when action k of a batch has failed with an I/O error and the request
\* has been answered with the error, the tree is the one actions 1..k-1 had
\* made, except for what action k itself changed before it failed: nothing
\* the earlier actions did is undone
C20_NoRollback ==
    (IoFailure /\ Aborted) =>
        LET r == last.req
            before == AfterPrefix(r, last.index - 1)
        IN  /\ ~before.failed
            /\ SameFilesOutside(last.mutated, files, before.files)
            /\ dirs \ last.mutated = before.dirs \ last.mutated
            /\ Mutated(tree0.files, tree0.dirs, before.files, before.dirs, {})
                   \subseteq touched[r]

C20_Witness ==
    /\ IoFailure /\ Aborted
    /\ last.index = 2
    /\ last.err = "ENOTDIR"
    /\ last.mutated = {}
    /\ batch[last.req][1] = [type |-> "create", path |-> <<"new", "N.tsx">>, content |-> "X"]
    /\ files[projectRoot \o <<"new", "N.tsx">>] = "X"
    /\ projectRoot \o <<"new">> \in dirs
    /\ files # tree0.files

\* both requests went through applyEdits and were answered success
BothSucceeded == \A r \in Reqs : invoked[r] /\ resp[r].status = "success"

\* the content the last action of request r on the file p wrote
LastWritten(r, p) == batch[r][Max(ActingOn(r, Len(batch[r]), p))].content

\* C15: two requests run their loops at the same time, and a file both have
\* written holds the content of the write that was made last: right after a
\* write has returned the file holds what that write wrote, and when both
\* requests have succeeded it holds the whole content of one of the two
C15_LastWriterWins ==
    /\ WriteApplied =>
           LET full == FullPath(variant, last.act.path) IN
           IsFile(files, full) /\ files[full] = last.act.content
    /\ BothSucceeded =>
           \A p \in DOMAIN files :
               (\A r \in Reqs : ActingOn(r, Len(batch[r]), p) # {}) =>
                   \E r \in Reqs : files[p] = LastWritten(r, p)

\* the two loops have interleaved and left a tree that neither order of the
\* two requests one after the other gives
InterleavedOutcome ==
    /\ BothSucceeded
    /\ LET b1 == batch["r1"]
           b2 == batch["r2"]
           s12 == RunBatch(variant, tree0.files, tree0.dirs, b1 \o b2)
           s21 == RunBatch(variant, tree0.files, tree0.dirs, b2 \o b1)
       IN  /\ files # s12.files
           /\ files # s21.files
           /\ \A p \in DOMAIN files : files[p] \in {"XX", "Y"}

\* C21: cleanAIResponse is idempotent: the second pass, made by handleEdit on
\* the text the provider call has cleaned already, returns that text unchanged
C21_CleanIsIdempotent ==
    cleaned.twice => cleaned.second = cleaned.text

\* C22: in part_001 (v3) an action is skipped as a path escape only when a
\* segment of its path is ".." or the path is absolute; a relative path
\* without the protected marker and without a ".." segment is not skipped,
\* two dots inside a file name notwithstanding
C22_OnlyTraversalIsEscape ==
    (variant = "v3" /\ Stepped /\ last.act.type \in KnownTypes
       /\ ~Contains(last.act.path, "SidePanel")
       /\ ~HasPrefixSlash(last.act.path)
       /\ \A i \in 1..Len(last.act.path) : last.act.path[i] # "..") =>
        /\ last.outcome # "skipped"
        /\ last.calls # <<>>

\* the paths gatherContextJSON reported to request r
Reported(r) == { c.path : c \in context[r] }

\* C23: in part_001 (v3) an update that carries the path gatherContextJSON
\* reported for a file (which does not hold the protected marker) reaches the
\* filesystem on that very file, projectRoot joined with the reported path
C23_ReportedPathRoundTrip ==
    (variant = "v3" /\ Stepped /\ last.act.type = "update"
       /\ last.act.path \in Reported(last.req)
       /\ ~Contains(last.act.path, "SidePanel")) =>
        /\ last.calls # <<>>
        /\ CallsOn(projectRoot \o last.act.path)

\* the contexts that are a snapshot with respect to the batch of request o:
\* the files as they were before the batch, and as the whole batch leaves them
Snapshots(o) ==
    { gatherContextJSON(tree0.files),
      gatherContextJSON(RunBatch(variant, tree0.files, tree0.dirs, batch[o]).files) }

\* C24: the context a request gathers while another request is applying its
\* batch is a snapshot with respect to that batch: the files before it or the
\* files after the whole of it, never a part of it
C24_ContextIsSnapshot ==
    [][\A r \in Reqs :
         (pc[r] = "idle" /\ pc'[r] = "gathered") =>
            \A o \in Reqs \ {r} :
               pc[o] \in {"applying", "writing"} => context'[r] \in Snapshots(o)]_vars

====
